---- MODULE Spec2Model ----
(***************************************************************************)
(* FootballLive (src/src/base_classes/football.py): the live-game registry, *)
(* the scoring-event tracker, the rotation of the displayed game, the poll  *)
(* gate and the test-mode clock simulation, one action per call of update().*)
(***************************************************************************)
EXTENDS Integers, Sequences, FiniteSets, TLC

VARIABLES now, last_update, last_game_switch, last_log_time,
          live_games, current_game_index, current_game,
          last_scoring_events, test_mode, ticks, obs, mon

vars == <<now, last_update, last_game_switch, last_log_time,
          live_games, current_game_index, current_game,
          last_scoring_events, test_mode, ticks, obs, mon>>

(* ------------------------------ bounds --------------------------------- *)

\* game ids the feed may report: 1..MaxId
MaxId == 2
\* longest candidate list of one poll
MaxCands == 2
\* calls of update() explored after construction
MaxTicks == 5
\* calls of update() explored by the idle-interval specification
MaxIdleTicks == 4
\* calls of update() explored by the extraction specification
MaxFetchTicks == 2
\* calls of update() explored by the field-extraction specification
MaxExtractTicks == 2
MaxSimTicks == 970
MaxRoundCands == 3
MaxRoundTicks == 4

(* ------------------------- program constants --------------------------- *)

update_interval == 15
no_data_interval == 300
game_display_duration == 20
log_interval == 300
is_enabled == TRUE
scoring_alerts_enabled == TRUE
favorite_teams == {"KC"}

\* start_time_utc missing from a record (Python None)
Absent == -1

\* time.time() at construction: far beyond every interval, as the epoch is
BootTime == no_data_interval + log_interval

GameIds == 1..MaxId
Labels == {"", "TOUCHDOWN", "FIELD GOAL"}

(* ------------------------------ records -------------------------------- *)

Clock1500 == <<"1", "5", ":", "0", "0">>

\* a Game as _extract_game_details returns it (the fields update() reads)
Game(id, st, se, poss) ==
    [id |-> id, start_time_utc |-> st, scoring_event |-> se, possession |-> poss,
     home_id |-> "H", away_id |-> "A", home_abbr |-> "KC", away_abbr |-> "DAL",
     is_live |-> TRUE, is_final |-> FALSE, period |-> 1, period_text |-> "Q1",
     clock |-> Clock1500, down_distance_text |-> <<"", 0>>,
     status_text |-> <<"Q1", Clock1500>>,
     home_timeouts |-> 3, away_timeouts |-> 3]

\* current_game = None
NoGame == [Game(0, Absent, "", "X") EXCEPT !.is_live = FALSE]

Ids(s) == [i \in 1..Len(s) |-> s[i].id]
IdSet(s) == {s[i].id : i \in 1..Len(s)}

SeqsUpTo(S, n) == UNION {[1..k -> S] : k \in 0..n}

(* ------------------------ _extract_game_details ----------------------- *)

show_favorite_teams_only == TRUE

\* a raw feed event, as far as extraction reads it: common is what
\* _extract_game_details_common made of it ("ok", or "none" when it returns
\* None for the details or a team), struct whether the football-specific part
\* finds its substructures ("ok") or raises on one ("broken"); state, name,
\* detail and shortDetail are those of status.type, period that of status;
\* situation tells whether the competition has a situation record, whose
\* possession, homeTimeouts and awayTimeouts follow (Absent: key missing)
RawEvent(id, common, struct, state, home) ==
    [id |-> id, common |-> common, struct |-> struct, state |-> state,
     home_abbr |-> home, away_abbr |-> "DAL",
     name |-> "STATUS_IN_PROGRESS", period |-> 1, game_time |-> "",
     detail |-> <<>>, shortDetail |-> <<>>,
     situation |-> TRUE, possession |-> "H",
     homeTimeouts |-> Absent, awayTimeouts |-> Absent]

IsLive(e) == e.state = "in"
IsHalftime(e) == e.state = "halftime"

\* the result for an event without a Game (return None)
NoDetails == [NoGame EXCEPT !.id = -1]

UpperCase == <<"A", "B", "C", "D", "E", "F", "G", "H", "I", "J", "K", "L", "M",
              "N", "O", "P", "Q", "R", "S", "T", "U", "V", "W", "X", "Y", "Z">>
LowerCase == <<"a", "b", "c", "d", "e", "f", "g", "h", "i", "j", "k", "l", "m",
              "n", "o", "p", "q", "r", "s", "t", "u", "v", "w", "x", "y", "z">>

\* str.lower()
Lower(text) ==
    [i \in 1..Len(text) |->
        IF \E k \in 1..Len(UpperCase) : UpperCase[k] = text[i]
        THEN LowerCase[CHOOSE k \in 1..Len(UpperCase) : UpperCase[k] = text[i]]
        ELSE text[i]]

\* keyword in text
Contains(text, kw) ==
    \E i \in 1..(Len(text) - Len(kw) + 1) : SubSeq(text, i, i + Len(kw) - 1) = kw

\* any(keyword in text for keyword in [...])
AnyIn(kws, text) == \E kw \in kws : Contains(text, kw)

KwTouchdown == {<<"t", "o", "u", "c", "h", "d", "o", "w", "n">>,
                <<"t", "d">>}
KwFieldGoal == {<<"f", "i", "e", "l", "d", " ", "g", "o", "a", "l">>,
                <<"f", "g">>}
KwPatDetail == {<<"e", "x", "t", "r", "a", " ", "p", "o", "i", "n", "t">>,
                <<"p", "a", "t">>,
                <<"p", "o", "i", "n", "t", " ", "a", "f", "t", "e", "r">>}
KwPatShort == {<<"e", "x", "t", "r", "a", " ", "p", "o", "i", "n", "t">>,
               <<"p", "a", "t">>}

\* "Check for scoring events in status text"
ScoringEventOf(detail, shortDetail) ==
    LET status_detail == Lower(detail)
        status_short == Lower(shortDetail)
    IN IF AnyIn(KwTouchdown, status_detail) THEN "TOUCHDOWN"
       ELSE IF AnyIn(KwFieldGoal, status_detail) THEN "FIELD GOAL"
       ELSE IF AnyIn(KwPatDetail, status_detail) THEN "PAT"
       ELSE IF AnyIn(KwTouchdown, status_short) THEN "TOUCHDOWN"
       ELSE IF AnyIn(KwFieldGoal, status_short) THEN "FIELD GOAL"
       ELSE IF AnyIn(KwPatShort, status_short) THEN "PAT"
       ELSE ""

\* "Format period/quarter"
PeriodTextOf(state, name, period, game_time) ==
    IF state = "in"
    THEN IF period = 0 THEN "Start"
         ELSE IF period = 1 THEN "Q1" ELSE IF period = 2 THEN "Q2"
         ELSE IF period = 3 THEN "Q3" ELSE IF period = 4 THEN "Q4"
         ELSE IF period > 4 THEN "OT" ELSE ""
    ELSE IF state = "halftime" \/ name = "STATUS_HALFTIME" THEN "HALF"
    ELSE IF state = "post" THEN (IF period > 4 THEN "Final/OT" ELSE "Final")
    ELSE IF state = "pre" THEN game_time
    ELSE ""

\* situation.get(key, 3) inside `if situation and state == "in"`, 0 outside
TimeoutsOf(e, given) ==
    IF e.situation /\ e.state = "in"
    THEN (IF given = Absent THEN 3 ELSE given)
    ELSE 0

\* the Game of one event, or NoDetails: the common part gave nothing, an
\* exception inside the try block was caught, or an abbreviation is missing
ExtractGameDetails(e) ==
    IF e.common # "ok" THEN NoDetails
    ELSE IF e.struct # "ok" THEN NoDetails
    ELSE IF e.home_abbr = "" \/ e.away_abbr = "" THEN NoDetails
    ELSE LET inplay == e.situation /\ e.state = "in"
             ptext == PeriodTextOf(e.state, e.name, e.period, e.game_time)
         IN [Game(e.id, e.id,
                  IF inplay THEN ScoringEventOf(e.detail, e.shortDetail) ELSE "",
                  IF inplay THEN e.possession ELSE "X") EXCEPT
                !.home_abbr = e.home_abbr, !.away_abbr = e.away_abbr,
                !.is_live = IsLive(e), !.is_final = (e.state = "post"),
                !.period = e.period, !.period_text = ptext,
                !.status_text = <<ptext, Clock1500>>,
                !.home_timeouts = TimeoutsOf(e, e.homeTimeouts),
                !.away_timeouts = TimeoutsOf(e, e.awayTimeouts)]

\* details and (is_live or is_halftime), and the favorite-team filter
KeepsEvent(e, details) ==
    /\ details # NoDetails
    /\ IsLive(e) \/ IsHalftime(e)
    /\ show_favorite_teams_only =>
          (details.home_abbr \in favorite_teams \/ details.away_abbr \in favorite_teams)

RECURSIVE NewLiveGames_StopAtFailure(_)
\* mutant: the first event without details ends the loop over the events
NewLiveGames_StopAtFailure(events) ==
    IF events = <<>> THEN <<>>
    ELSE LET details == ExtractGameDetails(Head(events)) IN
         IF details = NoDetails THEN <<>>
         ELSE (IF KeepsEvent(Head(events), details) THEN <<details>> ELSE <<>>)
              \o NewLiveGames_StopAtFailure(Tail(events))

RECURSIVE NewLiveGames(_)
\* new_live_games: the loop over data["events"]
NewLiveGames(events) ==
    IF events = <<>> THEN <<>>
    ELSE LET details == ExtractGameDetails(Head(events)) IN
         (IF KeepsEvent(Head(events), details) THEN <<details>> ELSE <<>>)
         \o NewLiveGames(Tail(events))

(* ------------------------- sorted(..., key=...) ------------------------ *)

\* mutant: a game without start time sorts before every other
SortKey_AbsentFirst(g, t) == IF g.start_time_utc = Absent THEN 0 ELSE g.start_time_utc

\* key=lambda g: g.get('start_time_utc') or datetime.now(timezone.utc)
SortKey(g, t) == IF g.start_time_utc = Absent THEN t ELSE g.start_time_utc

RECURSIVE InsertByKey(_, _, _)
\* g goes after every element whose key is <= its own: the sort is stable
InsertByKey(s, g, t) ==
    IF s = <<>> THEN <<g>>
    ELSE IF SortKey(Head(s), t) <= SortKey(g, t)
         THEN <<Head(s)>> \o InsertByKey(Tail(s), g, t)
         ELSE <<g>> \o s

\* mutant: the candidates are kept in feed order
SortedByStart_Unsorted(s, t) == s

RECURSIVE SortedByStart(_, _)
SortedByStart(s, t) ==
    IF s = <<>> THEN <<>>
    ELSE InsertByKey(SortedByStart(SubSeq(s, 1, Len(s) - 1), t), s[Len(s)], t)

(* ------------------------ _check_scoring_events ------------------------ *)

\* del self.last_scoring_events[game_id]
TrackerDel(tr, id) == [i \in (DOMAIN tr) \ {id} |-> tr[i]]

\* self.last_scoring_events[game_id] = scoring_event
TrackerSet(tr, id, se) ==
    [i \in (DOMAIN tr) \cup {id} |-> IF i = id THEN se ELSE tr[i]]

\* which team scored: "" when possession is neither team's id
ScoringTeam(g) ==
    IF g.possession = g.home_id THEN g.home_abbr
    ELSE IF g.possession = g.away_id THEN g.away_abbr
    ELSE ""

\* _trigger_scoring_animation: every branch calls trigger_wled_effect as a global
\* name, which is a function defined in the class body: the call raises NameError
TriggerRaises(team, se) == se \in {"TOUCHDOWN", "FIELD GOAL", "PAT"}

RECURSIVE CheckFrom(_, _, _)
\* the loop over live_games from position i (1-based) with tracker tr
CheckFrom(live, i, tr) ==
    IF i > Len(live) THEN [tracker |-> tr, alerts |-> <<>>, raised |-> FALSE]
    ELSE LET g == live[i] IN
      IF g.scoring_event = ""
      THEN CheckFrom(live, i + 1,
                     IF g.id \in DOMAIN tr THEN TrackerDel(tr, g.id) ELSE tr)
      ELSE IF g.id \in DOMAIN tr /\ tr[g.id] = g.scoring_event
      THEN CheckFrom(live, i + 1, tr)
      ELSE LET tr2 == TrackerSet(tr, g.id, g.scoring_event)
               team == ScoringTeam(g)
           IN IF team = "" \/ team \notin favorite_teams
              THEN CheckFrom(live, i + 1, tr2)
              ELSE LET a == [id |-> g.id, team |-> team, label |-> g.scoring_event]
                   IN IF TriggerRaises(team, g.scoring_event)
                      THEN [tracker |-> tr2, alerts |-> <<a>>, raised |-> TRUE]
                      ELSE LET r == CheckFrom(live, i + 1, tr2)
                           IN [r EXCEPT !.alerts = <<a>> \o r.alerts]

CheckScoringEvents(live, tr) ==
    IF ~scoring_alerts_enabled
    THEN [tracker |-> tr, alerts |-> <<>>, raised |-> FALSE]
    ELSE CheckFrom(live, 1, tr)

(* ------------------------- reconciliation ------------------------------ *)

\* position (1-based) of the first game with this id
FirstIndexOf(live, id) ==
    CHOOSE i \in 1..Len(live) :
        live[i].id = id /\ \A j \in 1..(i - 1) : live[j].id # id

\* temp_game_dict = {g['id']: g for g in new_live_games}: the last record wins
TempGameDict(cands, id) ==
    LET last == CHOOSE i \in 1..Len(cands) :
                    cands[i].id = id /\ \A j \in (i + 1)..Len(cands) : cands[j].id # id
    IN cands[last]

\* mutant: the pointer is reset to the first game although the current one is kept
ReplaceLiveSet_AlwaysFirst(live, cur, idx, lsw, cands, t) ==
    LET nl == SortedByStart(cands, t)
    IN [live |-> nl, idx |-> 0, cur |-> nl[1], lsw |-> t, branch |-> "reset"]

\* mutant: the reset of the pointer leaves last_game_switch alone
ReplaceLiveSet_NoClockReset(live, cur, idx, lsw, cands, t) ==
    LET nl == SortedByStart(cands, t) IN
    IF cur = NoGame \/ cur.id \notin IdSet(cands)
    THEN [live |-> nl, idx |-> 0, cur |-> nl[1], lsw |-> lsw, branch |-> "reset"]
    ELSE LET i == FirstIndexOf(nl, cur.id)
         IN [live |-> nl, idx |-> i - 1, cur |-> nl[i], lsw |-> lsw, branch |-> "keep"]

\* identity set changed: the sorted candidates replace the live set
ReplaceLiveSet(live, cur, idx, lsw, cands, t) ==
    LET nl == SortedByStart(cands, t) IN
    IF cur = NoGame \/ cur.id \notin IdSet(cands)
    THEN [live |-> nl, idx |-> 0, cur |-> nl[1], lsw |-> t, branch |-> "reset"]
    ELSE LET i == FirstIndexOf(nl, cur.id)
         IN [live |-> nl, idx |-> i - 1, cur |-> nl[i], lsw |-> lsw, branch |-> "keep"]

\* mutant: the merge re-sorts the fresh records
MergeLiveSet_Resorted(live, cur, idx, lsw, cands) ==
    LET nl == SortedByStart([i \in 1..Len(live) |-> TempGameDict(cands, live[i].id)], 0)
    IN [live |-> nl, idx |-> idx, cur |-> nl[idx + 1], lsw |-> lsw, branch |-> "merge"]

\* identity set unchanged: refresh the records in the existing order
MergeLiveSet(live, cur, idx, lsw, cands) ==
    [live |-> [i \in 1..Len(live) |-> TempGameDict(cands, live[i].id)],
     idx |-> idx,
     cur |-> IF cur # NoGame /\ cur.id \in IdSet(cands)
             THEN TempGameDict(cands, cur.id) ELSE cur,
     lsw |-> lsw, branch |-> "merge"]

\* mutant: a poll without candidates keeps the games it had
ClearLiveSet_KeepsGames(live, cur, idx, lsw) ==
    [live |-> live, idx |-> idx, cur |-> cur, lsw |-> lsw, branch |-> "clear"]

\* no candidates: the live set is cleared
ClearLiveSet(live, cur, idx, lsw) ==
    [live |-> <<>>, idx |-> 0, cur |-> NoGame, lsw |-> lsw, branch |-> "clear"]

\* mutant: a failed fetch drops the live games
KeepLiveSet_Cleared(live, cur, idx, lsw) == ClearLiveSet(live, cur, idx, lsw)

\* "Error fetching data or no events": the live games stay, and current_game
\* becomes None when there are none
KeepLiveSet(live, cur, idx, lsw) ==
    [live |-> live, idx |-> idx, cur |-> IF live = <<>> THEN NoGame ELSE cur,
     lsw |-> lsw, branch |-> "none"]

\* "Update game list and current game"
Reconcile(live, cur, idx, lsw, cands, t) ==
    IF cands # <<>>
    THEN IF IdSet(cands) # IdSet(live)
         THEN ReplaceLiveSet(live, cur, idx, lsw, cands, t)
         ELSE MergeLiveSet(live, cur, idx, lsw, cands)
    ELSE ClearLiveSet(live, cur, idx, lsw)

\* mutant: the message does not ask whether games were showing
EndedLogged_Always(live, cands) == cands = <<>>

\* "Live games previously showing have ended or are no longer live."
EndedLogged(live, cands) == cands = <<>> /\ live # <<>>

\* mutant: the summary is logged by the clock alone
ShouldLog_ByTimeOnly(live, cands, lastlog, t) == t - lastlog >= log_interval

\* should_log of the one-line summary
ShouldLog(live, cands, lastlog, t) ==
    \/ t - lastlog >= log_interval
    \/ Len(cands) # Len(live)
    \/ \E i \in 1..Len(live) : i <= Len(cands) /\ live[i].id # cands[i].id
    \/ (live = <<>> /\ cands # <<>>)

(* ------------------------------ rotation ------------------------------- *)

\* mutant: the switch does not ask for test mode
ShouldSwitch_InTestMode(tm, live, lsw, t) ==
    Len(live) > 1 /\ (t - lsw) >= game_display_duration

\* "Handle game switching"
ShouldSwitch(tm, live, lsw, t) ==
    ~tm /\ Len(live) > 1 /\ (t - lsw) >= game_display_duration

\* mutant: the index advances and current_game stays the old record
Rotate_StaleGame(tm, live, idx, cur, lsw, t) ==
    IF ShouldSwitch(tm, live, lsw, t)
    THEN [idx |-> (idx + 1) % Len(live), cur |-> cur, lsw |-> t, rotated |-> TRUE]
    ELSE [idx |-> idx, cur |-> cur, lsw |-> lsw, rotated |-> FALSE]

\* mutant: the rotation block does not look at test_mode
Rotate_AlsoInTestMode(tm, live, idx, cur, lsw, t) ==
    IF ShouldSwitch(FALSE, live, lsw, t)
    THEN LET n == (idx + 1) % Len(live)
         IN [idx |-> n, cur |-> live[n + 1], lsw |-> t, rotated |-> TRUE]
    ELSE [idx |-> idx, cur |-> cur, lsw |-> lsw, rotated |-> FALSE]

Rotate(tm, live, idx, cur, lsw, t) ==
    IF ShouldSwitch(tm, live, lsw, t)
    THEN LET n == (idx + 1) % Len(live)
         IN [idx |-> n, cur |-> live[n + 1], lsw |-> t, rotated |-> TRUE]
    ELSE [idx |-> idx, cur |-> cur, lsw |-> lsw, rotated |-> FALSE]

(* ----------------------- test-mode clock simulation -------------------- *)

Digits == <<"0", "1", "2", "3", "4", "5", "6", "7", "8", "9">>
DigitVal(c) == (CHOOSE i \in 1..10 : Digits[i] = c) - 1
IsDigit(c) == \E i \in 1..10 : Digits[i] = c

RECURSIVE SplitColon(_)
\* clock.split(':')
SplitColon(s) ==
    IF \A i \in 1..Len(s) : s[i] # ":" THEN <<s>>
    ELSE LET k == CHOOSE i \in 1..Len(s) :
                      s[i] = ":" /\ \A j \in 1..(i - 1) : s[j] # ":"
         IN <<SubSeq(s, 1, k - 1)>> \o SplitColon(SubSeq(s, k + 1, Len(s)))

\* int(text) succeeds
IsInt(s) == s # <<>> /\ \A i \in 1..Len(s) : IsDigit(s[i])

RECURSIVE IntOf(_)
IntOf(s) ==
    IF s = <<>> THEN 0
    ELSE 10 * IntOf(SubSeq(s, 1, Len(s) - 1)) + DigitVal(s[Len(s)])

RECURSIVE DigitsOf(_)
DigitsOf(n) ==
    IF n < 10 THEN <<Digits[n + 1]>>
    ELSE DigitsOf(n \div 10) \o <<Digits[(n % 10) + 1]>>

\* f"{n:02d}" for n >= 0
Fmt02d(n) == IF n < 10 THEN <<"0">> \o DigitsOf(n) ELSE DigitsOf(n)

\* minutes, seconds = map(int, clock.split(':')) raises ValueError
ClockUnparsable(clock) ==
    LET parts == SplitColon(clock)
    IN Len(parts) # 2 \/ ~IsInt(parts[1]) \/ ~IsInt(parts[2])

PeriodText(p, old) ==
    IF p = 1 THEN "Q1" ELSE IF p = 2 THEN "Q2"
    ELSE IF p = 3 THEN "Q3" ELSE IF p = 4 THEN "Q4" ELSE old

Downs == <<"1st", "2nd", "3rd", "4th">>

\* mutant: a seconds underflow leaves the minutes as they are
SimulateClock_NoBorrow(g) ==
    LET parts == SplitColon(g.clock)
        m0 == IntOf(parts[1])
        s0 == IntOf(parts[2]) - 1
        under == s0 < 0 /\ m0 - 1 < 0
        nextq == under /\ g.period < 4
        final == under /\ ~(g.period < 4)
        period == IF nextq THEN g.period + 1 ELSE g.period
        ptext == IF nextq THEN PeriodText(period, g.period_text)
                 ELSE IF final THEN "Final" ELSE g.period_text
        m == IF nextq THEN 15 ELSE IF final THEN 0
             ELSE m0
        s == IF under THEN 0 ELSE IF s0 < 0 THEN 59 ELSE s0
        clock == Fmt02d(m) \o <<":">> \o Fmt02d(s)
    IN [g EXCEPT !.period = period, !.period_text = ptext,
                 !.is_live = IF final THEN FALSE ELSE g.is_live,
                 !.is_final = IF final THEN TRUE ELSE g.is_final,
                 !.clock = clock,
                 !.down_distance_text =
                     IF s % 15 = 0 THEN <<Downs[(s % 4) + 1], (s % 10) + 1>>
                     ELSE g.down_distance_text,
                 !.status_text = <<ptext, clock>>]

\* mutant: the fourth quarter is followed by another 15:00 of the same period
SimulateClock_EndlessQuarter(g) ==
    LET parts == SplitColon(g.clock)
        m0 == IntOf(parts[1])
        s0 == IntOf(parts[2]) - 1
        under == s0 < 0 /\ m0 - 1 < 0
        nextq == under
        final == FALSE
        period == IF under /\ g.period < 4 THEN g.period + 1 ELSE g.period
        ptext == IF nextq THEN PeriodText(period, g.period_text)
                 ELSE IF final THEN "Final" ELSE g.period_text
        m == IF nextq THEN 15 ELSE IF final THEN 0
             ELSE IF s0 < 0 THEN m0 - 1 ELSE m0
        s == IF under THEN 0 ELSE IF s0 < 0 THEN 59 ELSE s0
        clock == Fmt02d(m) \o <<":">> \o Fmt02d(s)
    IN [g EXCEPT !.period = period, !.period_text = ptext,
                 !.is_live = IF final THEN FALSE ELSE g.is_live,
                 !.is_final = IF final THEN TRUE ELSE g.is_final,
                 !.clock = clock,
                 !.down_distance_text =
                     IF s % 15 = 0 THEN <<Downs[(s % 4) + 1], (s % 10) + 1>>
                     ELSE g.down_distance_text,
                 !.status_text = <<ptext, clock>>]

\* one simulated second on a live game whose clock parses
SimulateClock(g) ==
    LET parts == SplitColon(g.clock)
        m0 == IntOf(parts[1])
        s0 == IntOf(parts[2]) - 1
        under == s0 < 0 /\ m0 - 1 < 0
        nextq == under /\ g.period < 4
        final == under /\ ~(g.period < 4)
        period == IF nextq THEN g.period + 1 ELSE g.period
        ptext == IF nextq THEN PeriodText(period, g.period_text)
                 ELSE IF final THEN "Final" ELSE g.period_text
        m == IF nextq THEN 15 ELSE IF final THEN 0
             ELSE IF s0 < 0 THEN m0 - 1 ELSE m0
        s == IF under THEN 0 ELSE IF s0 < 0 THEN 59 ELSE s0
        clock == Fmt02d(m) \o <<":">> \o Fmt02d(s)
    IN [g EXCEPT !.period = period, !.period_text = ptext,
                 !.is_live = IF final THEN FALSE ELSE g.is_live,
                 !.is_final = IF final THEN TRUE ELSE g.is_final,
                 !.clock = clock,
                 !.down_distance_text =
                     IF s % 15 = 0 THEN <<Downs[(s % 4) + 1], (s % 10) + 1>>
                     ELSE g.down_distance_text,
                 !.status_text = <<ptext, clock>>]

\* mutant: the end of the fourth quarter leaves the game live
SimStep_KeepsLive(g) ==
    IF g # NoGame /\ g.is_live
    THEN IF ClockUnparsable(g.clock) THEN g
         ELSE [SimulateClock(g) EXCEPT !.is_live = TRUE, !.is_final = FALSE]
    ELSE g

\* mutant: a clock that does not parse ends the simulated game
SimStep_EndsOnBadClock(g) ==
    IF g # NoGame /\ g.is_live
    THEN IF ClockUnparsable(g.clock) THEN [g EXCEPT !.is_live = FALSE]
         ELSE SimulateClock(g)
    ELSE g

\* the test-mode branch of update()
SimStep(g) ==
    IF g # NoGame /\ g.is_live
    THEN IF ClockUnparsable(g.clock) THEN g ELSE SimulateClock(g)
    ELSE g

(* --------------------- observations of the last tick ------------------- *)

\* obs records what the last call of update() did; mon follows one game's
\* labels and alerts over its successive reconciled polls.  Neither is read
\* by the program.

\* the game whose alerts mon follows: the last one in start order
Watched == MaxId

Obs(kind, cands, rec, chk, rot, ended, summary, streak, before) ==
    [kind |-> kind, cands |-> cands, branch |-> rec.branch,
     preIds |-> Ids(live_games), preIdx |-> current_game_index,
     preCurId |-> current_game.id, preSwitch |-> last_game_switch,
     recIdx |-> rec.idx, recCurId |-> rec.cur.id, recSwitch |-> rec.lsw,
     refreshed |-> (rec.live # live_games),
     alerts |-> chk.alerts, raised |-> chk.raised,
     rotated |-> rot.rotated, ended |-> ended, summary |-> summary,
     streak |-> streak, endedBefore |-> before, feed |-> <<>>,
     shown |-> <<>>, shownFrom |-> 0]

\* how many polls in a row, this one included, brought this same non-empty
\* candidate list with exactly the ids of the live set (counted to 2)
Streak(cands) ==
    IF cands # <<>> /\ IdSet(cands) = IdSet(live_games)
    THEN IF obs.kind = "poll" /\ obs.cands = cands /\ obs.streak >= 1 THEN 2 ELSE 1
    ELSE 0

\* an earlier tick logged that the live games had ended
EndedBefore == obs.endedBefore \/ obs.ended

\* nothing reconciled, checked or rotated
Untouched ==
    [live |-> live_games, idx |-> current_game_index, cur |-> current_game,
     lsw |-> last_game_switch, branch |-> "none"]
NoCheck == [tracker |-> last_scoring_events, alerts |-> <<>>, raised |-> FALSE]
NoRotation(rec) ==
    [idx |-> rec.idx, cur |-> rec.cur, lsw |-> rec.lsw, rotated |-> FALSE]

\* shown: the ids of the games the rotation made current, in order, since the
\* identity set of the live set last changed; shownFrom: the id of the game
\* that was current when it did
Seen(o, rec, rot) ==
    LET same == IdSet(rec.live) = IdSet(live_games)
        base == IF same THEN obs.shown ELSE <<>>
    IN [o EXCEPT !.shown = IF rot.rotated THEN Append(base, rot.cur.id) ELSE base,
                 !.shownFrom = IF same THEN obs.shownFrom ELSE rec.cur.id]

\* phase, n, first: the pattern below, the alerts of the watched game during it,
\* and whether one came on its first TOUCHDOWN poll; lastEmpty: the last poll
\* showed no label; alerted: labels alerted since then; cleared: labels alerted
\* earlier and cleared by an empty label since; dup: the last poll alerted a label
\* of alerted again; missed: it showed a label of cleared right after an empty
\* one, for a favorite, without an alert
\* prev: the label of the last poll; quiet: the label that appeared or changed
\* while the scoring team did not resolve and has been shown ever since;
\* unrecorded: on the poll where it appeared so it was alerted or not stored in
\* the tracker; late: the last poll alerted the label of quiet
MonInit ==
    [phase |-> 0, n |-> 0, first |-> FALSE, lastEmpty |-> FALSE,
     alerted |-> {}, cleared |-> {}, dup |-> FALSE, missed |-> FALSE,
     prev |-> "", quiet |-> "", unrecorded |-> FALSE, late |-> FALSE]

\* the pattern "", TOUCHDOWN, TOUCHDOWN, "" of a favorite scoring team:
\* phase counts how many of its polls the last observations match
MonPhase(p, l, fav) ==
    IF l = "" THEN (IF p = 3 THEN 4 ELSE 1)
    ELSE IF l = "TOUCHDOWN" /\ fav /\ p \in {1, 4} THEN 2
    ELSE IF l = "TOUCHDOWN" /\ fav /\ p = 2 THEN 3
    ELSE 0

MonStep(m, live, alerts, tracker) ==
    IF Watched \notin IdSet(live)
    THEN [MonInit EXCEPT !.alerted = m.alerted, !.cleared = m.cleared]
    ELSE LET g == live[FirstIndexOf(live, Watched)]
             l == g.scoring_event
             fav == ScoringTeam(g) \in favorite_teams
             hit == \E i \in 1..Len(alerts) : alerts[i].id = Watched
             k == IF hit THEN 1 ELSE 0
             p == MonPhase(m.phase, l, fav)
             appeared == l # "" /\ l # m.prev /\ ScoringTeam(g) = ""
         IN [prev |-> l,
             quiet |-> IF appeared THEN l
                       ELSE IF l # "" /\ l = m.quiet THEN l ELSE "",
             unrecorded |-> appeared /\ (hit \/ Watched \notin DOMAIN tracker
                                             \/ tracker[Watched] # l),
             late |-> hit /\ l # "" /\ l = m.quiet /\ ~appeared,
             phase |-> p,
             n |-> IF p = 2 THEN k ELSE IF p \in {3, 4} THEN m.n + k ELSE 0,
             first |-> IF p = 2 THEN hit ELSE IF p \in {3, 4} THEN m.first ELSE FALSE,
             lastEmpty |-> (l = ""),
             alerted |-> IF l = "" THEN {} ELSE IF hit THEN m.alerted \cup {l}
                         ELSE m.alerted,
             cleared |-> IF l = "" THEN m.cleared \cup m.alerted ELSE m.cleared,
             dup |-> hit /\ l \in m.alerted,
             missed |-> m.lastEmpty /\ l \in m.cleared /\ fav /\ ~hit]

(* ------------------------------- update() ------------------------------ *)

\* mutant: the gate always uses the short interval
Interval_AlwaysShort == update_interval

\* interval = no_data_interval if not live_games and not test_mode else update_interval
Interval ==
    IF live_games = <<>> /\ ~test_mode THEN no_data_interval ELSE update_interval

\* mutant: the body of update() runs on every call
GatePasses_Always(t) == TRUE

\* current_time - self.last_update >= interval
GatePasses(t) == t - last_update >= Interval

\* one call of update() d seconds after the last one, of at most bound calls
ClockedTo(d, bound) ==
    is_enabled /\ ticks < bound /\ ticks' = ticks + 1 /\ now' = now + d

Clocked(d) == ClockedTo(d, MaxTicks)

\* the gate is closed: update() returns without touching anything
TickIdle(d) ==
    /\ Clocked(d)
    /\ ~GatePasses(now + d)
    /\ obs' = Seen(Obs("idle", <<>>, Untouched, NoCheck, NoRotation(Untouched),
                       FALSE, FALSE, 0, EndedBefore),
                   Untouched, NoRotation(Untouched))
    /\ UNCHANGED <<last_update, last_game_switch, last_log_time, live_games,
                   current_game_index, current_game, last_scoring_events,
                   test_mode, mon>>

\* test mode: one simulated step on current_game, which is the object held in
\* live_games at current_game_index
SimTick(d, bound) ==
    LET t == now + d IN
    /\ ClockedTo(d, bound)
    /\ GatePasses(t)
    /\ test_mode
    /\ \E g \in {SimStep(current_game)} :
       \E rec \in {[Untouched EXCEPT
                      !.live = [i \in 1..Len(live_games) |->
                                  IF i = current_game_index + 1
                                     /\ live_games[i] = current_game
                                  THEN g ELSE live_games[i]],
                      !.cur = g]} :
       \E rot \in {Rotate(test_mode, rec.live, rec.idx, rec.cur, rec.lsw, t)} :
          /\ last_update' = t
          /\ live_games' = rec.live
          /\ current_game_index' = rot.idx
          /\ current_game' = rot.cur
          /\ last_game_switch' = rot.lsw
          /\ obs' = Seen(Obs("test", <<>>, rec, NoCheck, rot, FALSE, FALSE, 0,
                             EndedBefore), rec, rot)
    /\ UNCHANGED <<last_log_time, last_scoring_events, test_mode, mon>>

TickTest(d) == SimTick(d, MaxTicks)

\* the fetch returns nothing, or data without "events"
TickFetchFail(d) ==
    LET t == now + d IN
    /\ Clocked(d)
    /\ GatePasses(t)
    /\ ~test_mode
    /\ \E rec \in {KeepLiveSet(live_games, current_game, current_game_index,
                               last_game_switch)} :
       \E rot \in {Rotate(test_mode, rec.live, rec.idx, rec.cur, rec.lsw, t)} :
          /\ last_update' = t
          /\ live_games' = rec.live
          /\ current_game_index' = rot.idx
          /\ current_game' = rot.cur
          /\ last_game_switch' = rot.lsw
          /\ obs' = Seen(Obs("fail", <<>>, rec, NoCheck, rot, FALSE, FALSE, 0,
                             EndedBefore), rec, rot)
    /\ UNCHANGED <<last_log_time, last_scoring_events, test_mode, mon>>

\* the fetch succeeds with the events feed, whose filtered candidates are cands
PollWith(d, cands, feed) ==
    LET t == now + d IN
    /\ Clocked(d)
    /\ GatePasses(t)
    /\ ~test_mode
    /\ \E summary \in {ShouldLog(live_games, cands, last_log_time, t)} :
       \E rec \in {Reconcile(live_games, current_game, current_game_index,
                             last_game_switch, cands, t)} :
       \E chk \in {IF cands # <<>>
                   THEN CheckScoringEvents(rec.live, last_scoring_events)
                   ELSE NoCheck} :
       \* an exception raised by the check leaves update() before the rotation
       \E rot \in {IF chk.raised THEN NoRotation(rec)
                   ELSE Rotate(test_mode, rec.live, rec.idx, rec.cur, rec.lsw, t)} :
          /\ last_update' = t
          /\ last_log_time' = IF summary THEN t ELSE last_log_time
          /\ live_games' = rec.live
          /\ last_scoring_events' = chk.tracker
          /\ current_game_index' = rot.idx
          /\ current_game' = rot.cur
          /\ last_game_switch' = rot.lsw
          /\ obs' = [Seen(Obs("poll", cands, rec, chk, rot,
                              EndedLogged(live_games, cands), summary,
                              Streak(cands), EndedBefore), rec, rot)
                         EXCEPT !.feed = feed]
          /\ mon' = MonStep(mon, rec.live, chk.alerts, chk.tracker)
    /\ UNCHANGED test_mode

\* a poll given by its candidates, the events behind them left out
TickPoll(d, cands) == PollWith(d, cands, <<>>)

\* a poll given by the events of the feed
TickFetch(d, events) == PollWith(d, NewLiveGames(events), events)

(* --------------------------- specifications ---------------------------- *)

\* seconds between two calls of update()
Deltas == {10, 15}

StartTimes == {Absent, 1, 2}

\* candidates of the registry: any start time, no scoring label
RegGames == {Game(id, st, "", "H") : id \in GameIds, st \in StartTimes}

\* label and possession of a tracked candidate: no label, a favorite's touchdown
\* or field goal (home), the other team's touchdown (away), an unresolved one
Scorings ==
    {<<"", "H">>, <<"TOUCHDOWN", "H">>, <<"FIELD GOAL", "H">>,
     <<"TOUCHDOWN", "A">>, <<"TOUCHDOWN", "X">>}

\* candidates of the tracker: game id started at time id
ScoreGames == {Game(id, id, sc[1], sc[2]) : id \in GameIds, sc \in Scorings}

\* the tracker's polls: each id at most once, in feed order by id
ScoreLists ==
    {s \in SeqsUpTo(ScoreGames, MaxCands) :
        \A i, j \in 1..Len(s) : i < j => s[i].id < s[j].id}

\* the game a test-mode manager starts from (set by the sport's subclass)
\* (clocks of digits, colons and letters: int() of a part is its digits)
TestClocks ==
    {<<"0", "0", ":", "0", "1">>, <<"0", "0", ":", "0", "0">>,
     <<"0", "1", ":", "0", "0">>,
     <<"0", ":", "x">>, <<"0", ":", "0", ":", "0">>}
TestGames ==
    {[Game(1, 1, "", "H") EXCEPT !.clock = c, !.period = p,
                                  !.period_text = PeriodText(p, ""),
                                  !.status_text = <<PeriodText(p, ""), c>>] :
        c \in TestClocks, p \in {0, 3, 4}}

Init ==
    /\ now = BootTime
    /\ last_update = 0
    /\ last_game_switch = 0
    /\ last_log_time = 0
    /\ last_scoring_events = <<>>
    /\ current_game_index = 0
    /\ test_mode \in BOOLEAN
    /\ IF test_mode
       THEN /\ current_game \in TestGames
            /\ live_games \in {<<current_game>>, <<current_game, Game(2, 2, "", "H")>>}
       ELSE /\ current_game = NoGame
            /\ live_games = <<>>
    /\ mon = MonInit
    /\ ticks = 0
    /\ obs = Obs("init", <<>>, Untouched, NoCheck, NoRotation(Untouched),
                 FALSE, FALSE, 0, FALSE)

Next ==
    \E d \in Deltas :
        \/ TickIdle(d)
        \/ TickTest(d)
        \/ TickFetchFail(d)
        \/ \E cands \in SeqsUpTo(RegGames, MaxCands) : TickPoll(d, cands)

Spec == Init /\ [][Next]_vars

NextScore ==
    \E d \in {game_display_duration} :
        \/ TickIdle(d)
        \/ TickTest(d)
        \/ TickFetchFail(d)
        \/ \E cands \in ScoreLists : TickPoll(d, cands)

SpecScore == Init /\ [][NextScore]_vars

\* the idle polls: display-duration and idle-interval gaps, at most
\* MaxIdleTicks of them; one more game id than the registry's, each id at
\* most once, in any feed order
IdleLists ==
    {s \in SeqsUpTo({Game(id, id, "", "H") : id \in 1..(MaxId + 1)}, MaxCands) :
        \A i, j \in 1..Len(s) : i # j => s[i].id # s[j].id}

NextIdle ==
    \E d \in {game_display_duration, no_data_interval} :
        \/ ticks < MaxIdleTicks /\ TickIdle(d)
        \/ ticks < MaxIdleTicks /\ TickTest(d)
        \/ ticks < MaxIdleTicks /\ TickFetchFail(d)
        \/ ticks < MaxIdleTicks /\ \E cands \in IdleLists : TickPoll(d, cands)

SpecIdle == Init /\ [][NextIdle]_vars

\* the poll gate: gaps below the short interval and of one and two thirds of
\* the idle interval; the feed reports no game or the one game
GateDeltas == {10, no_data_interval \div 3, 2 * (no_data_interval \div 3)}
GateLists == {<<>>, <<Game(1, 1, "", "H")>>}

NextGate ==
    \E d \in GateDeltas :
        \/ TickIdle(d)
        \/ TickTest(d)
        \/ TickFetchFail(d)
        \/ \E cands \in GateLists : TickPoll(d, cands)

SpecGate == Init /\ [][NextGate]_vars

\* the rounds of the rotation: a poll at every display duration, whose feed
\* lists up to MaxRoundCands events in start order, an id possibly more than
\* once
RoundLists ==
    {s \in SeqsUpTo({Game(id, id, "", "H") : id \in 1..(MaxId + 1)}, MaxRoundCands) :
        \A i, j \in 1..Len(s) : i < j => s[i].id <= s[j].id}

NextRound ==
    \E d \in {game_display_duration} :
        \/ ticks < MaxRoundTicks /\ TickIdle(d)
        \/ ticks < MaxRoundTicks /\ TickTest(d)
        \/ ticks < MaxRoundTicks /\ TickFetchFail(d)
        \/ ticks < MaxRoundTicks /\ \E cands \in RoundLists : TickPoll(d, cands)

SpecRound == Init /\ [][NextRound]_vars

\* the test-mode manager polled at every update interval by its caller's
\* loop, which does not stop: from the third or the fourth quarter, long
\* enough for a minute, a quarter of 15:00 and the steps between them
InitSim ==
    /\ Init /\ test_mode /\ current_game.period >= 3
    /\ ~ClockUnparsable(current_game.clock) /\ Len(live_games) = 1

NextSim == \E d \in {update_interval} : SimTick(d, MaxSimTicks)

SpecSim == InitSim /\ [][NextSim]_vars /\ WF_vars(NextSim)

\* the feeds of the extraction: per id an event in play, at halftime, final,
\* of two other teams, without common details, with a broken substructure or
\* without a home abbreviation; each id at most once, in feed order by id
RawEvents ==
    {RawEvent(id, k[1], k[2], k[3], k[4]) :
        id \in GameIds,
        k \in {<<"ok", "ok", "in", "KC">>, <<"ok", "ok", "halftime", "KC">>,
               <<"ok", "ok", "post", "KC">>, <<"ok", "ok", "in", "NYG">>,
               <<"none", "ok", "in", "KC">>, <<"ok", "broken", "in", "KC">>,
               <<"ok", "ok", "in", "">>}}

Feeds ==
    {s \in SeqsUpTo(RawEvents, MaxCands) :
        \A i, j \in 1..Len(s) : i < j => s[i].id < s[j].id}

NextFetch ==
    \E d \in {game_display_duration} :
        \/ ticks < MaxFetchTicks /\ TickIdle(d)
        \/ ticks < MaxFetchTicks /\ TickTest(d)
        \/ ticks < MaxFetchTicks /\ TickFetchFail(d)
        \/ ticks < MaxFetchTicks /\ \E events \in Feeds : TickFetch(d, events)

SpecFetch == Init /\ [][NextFetch]_vars

\* the events of the field extraction, all of game 1 with both abbreviations:
\* every status state with either status name and the periods 0..5
PeriodEvents ==
    {[RawEvent(1, "ok", "ok", st, "KC") EXCEPT
          !.name = nm, !.period = p, !.game_time = "7:30 PM"] :
        st \in {"in", "halftime", "post", "pre"},
        nm \in {"STATUS_HALFTIME", "STATUS_IN_PROGRESS"}, p \in 0..5}

\* status texts: none, one keyword group each (in capitals, as an abbreviation,
\* as the group's last keyword), two groups at once, no keyword at all
StatusTexts ==
    {<<>>, <<"T", "o", "u", "c", "h", "d", "o", "w", "n">>,
     <<"F", "G">>,
     <<"p", "o", "i", "n", "t", " ", "a", "f", "t", "e", "r">>,
     <<"f", "g", " ", "t", "d">>,
     <<"E", "n", "d", " ", "Q", "1">>}

\* in play and after the game, with and without a situation record, every
\* pair of long and short status text
TextEvents ==
    {[RawEvent(1, "ok", "ok", st, "KC") EXCEPT
          !.situation = sit, !.detail = dt, !.shortDetail = sh] :
        st \in {"in", "post"}, sit \in BOOLEAN,
        dt \in StatusTexts, sh \in StatusTexts}

\* in play and at halftime, with and without a situation record, the
\* timeouts given or missing
TimeoutEvents ==
    {[RawEvent(1, "ok", "ok", st, "KC") EXCEPT
          !.situation = sit, !.homeTimeouts = ht, !.awayTimeouts = at] :
        st \in {"in", "halftime"}, sit \in BOOLEAN,
        ht \in {Absent, 0, 2}, at \in {Absent, 3}}

ExtractEvents == PeriodEvents \cup TextEvents \cup TimeoutEvents

NextExtract ==
    \E d \in {game_display_duration} :
        \/ ticks < MaxExtractTicks /\ TickIdle(d)
        \/ ticks < MaxExtractTicks /\ TickTest(d)
        \/ ticks < MaxExtractTicks /\ TickFetchFail(d)
        \/ ticks < MaxExtractTicks /\ \E e \in ExtractEvents : TickFetch(d, <<e>>)

SpecExtract == Init /\ [][NextExtract]_vars

(* ------------------------------- claims -------------------------------- *)

Range(q) == {q[i] : i \in 1..Len(q)}
Count(q, x) == Cardinality({i \in 1..Len(q) : q[i] = x})

\* a poll whose fetch succeeded with a non-empty candidate list
Polled == obs.kind = "poll" /\ obs.cands # <<>>
\* ... whose ids are exactly those of the live set before the tick
SameIdentity == Polled /\ IdSet(obs.cands) = Range(obs.preIds)
\* ... whose ids differ from those of the live set before the tick
ChangedIdentity == Polled /\ IdSet(obs.cands) # Range(obs.preIds)

\* C1: the live set never holds two entries with the same game id.
C1_UniqueIds ==
    \A i, j \in 1..Len(live_games) :
        i # j => live_games[i].id # live_games[j].id

\* C2: outside test mode the live set is empty and current_game is None, or
\* current_game_index is a valid index and current_game has the id of the game
\* at that index.
C2_CurrentValid ==
    ~test_mode =>
        IF live_games = <<>> THEN current_game = NoGame
        ELSE /\ current_game_index \in 0..(Len(live_games) - 1)
             /\ current_game # NoGame
             /\ current_game.id = live_games[current_game_index + 1].id

\* C2 witness: a rotation moved the pointer to the second of two different games
C2_Witness ==
    /\ ~test_mode /\ obs.rotated /\ Len(live_games) = 2
    /\ current_game_index = 1 /\ live_games[1].id # live_games[2].id
    /\ current_game.id = live_games[2].id

\* C3: a poll with exactly the ids of the live set keeps the order of the ids
\* and the pointer (index and id), every entry becomes a fresh candidate record
\* of its id, and the same list a second time in a row changes nothing more.
C3_MergeKeepsOrder ==
    SameIdentity =>
        /\ Ids(live_games) = obs.preIds
        /\ obs.recIdx = obs.preIdx
        /\ obs.recCurId = obs.preCurId
        /\ \A i \in 1..Len(live_games) :
              \E k \in 1..Len(obs.cands) :
                  obs.cands[k] = live_games[i] /\ obs.cands[k].id = obs.preIds[i]
        /\ (obs.streak = 2 => ~obs.refreshed)

\* C3 witness: the second identical merge in a row of two games whose fresh
\* start times would sort the other way round, the pointer on the second game
C3_Witness ==
    /\ SameIdentity /\ obs.streak = 2 /\ Len(live_games) = 2
    /\ obs.recIdx = 1
    /\ live_games[1].start_time_utc = 2 /\ live_games[2].start_time_utc = 1

\* C4: a poll whose non-empty candidate ids differ from the tracked ids makes
\* the live set the candidate list in ascending start_time_utc order; from an
\* empty live set, games 1 (start T0) and 2 (start T1 > T0) give [1, 2] with
\* game 1 current at index 0.
C4_ReplaceSorted ==
    ChangedIdentity =>
        /\ Len(live_games) = Len(obs.cands)
        /\ \A x \in Range(obs.cands) : Count(live_games, x) = Count(obs.cands, x)
        /\ \A i, j \in 1..Len(live_games) :
              (i < j /\ live_games[i].start_time_utc # Absent
                     /\ live_games[j].start_time_utc # Absent)
              => live_games[i].start_time_utc <= live_games[j].start_time_utc
        /\ (obs.preIds = <<>> /\ IdSet(obs.cands) = {1, 2} /\ Len(obs.cands) = 2
            /\ \A k \in 1..2 : obs.cands[k].start_time_utc = obs.cands[k].id)
           => (Ids(live_games) = <<1, 2>> /\ current_game_index = 0
               /\ current_game.id = 1)

\* C4 witness: from an empty live set the feed lists game 2 before game 1
C4_Witness ==
    /\ ChangedIdentity /\ obs.preIds = <<>>
    /\ Ids(obs.cands) = <<2, 1>>
    /\ obs.cands[1].start_time_utc = 2 /\ obs.cands[2].start_time_utc = 1
    /\ Ids(live_games) = <<1, 2>> /\ current_game_index = 0

\* C5: when the identity set changes and the current game's id is still among
\* the candidates, current keeps that id after reconciliation and the index is
\* the id's position in the re-sorted live set.
C5_CurrentFollowsId ==
    (ChangedIdentity /\ obs.preCurId \in IdSet(obs.cands)) =>
        /\ obs.recCurId = obs.preCurId
        /\ obs.recIdx \in 0..(Len(live_games) - 1)
        /\ live_games[obs.recIdx + 1].id = obs.preCurId
        /\ \A j \in 1..obs.recIdx : live_games[j].id # obs.preCurId
        /\ (~obs.rotated =>
              current_game_index = obs.recIdx /\ current_game.id = obs.preCurId)

\* C5 witness: the current game moved from index 0 to index 1
C5_Witness ==
    /\ ChangedIdentity /\ obs.preCurId \in IdSet(obs.cands)
    /\ obs.preIdx = 0 /\ obs.recIdx = 1 /\ ~obs.rotated /\ current_game_index = 1
    /\ live_games[1].id # obs.preCurId

\* C6: when the identity set changes and the current game's id is not among the
\* candidates (or there was no current game), current becomes index 0,
\* last_game_switch becomes the tick time and the tick does not rotate.
C6_ResetNoRotation ==
    (ChangedIdentity /\ obs.preCurId \notin IdSet(obs.cands)) =>
        /\ obs.recIdx = 0
        /\ obs.recSwitch = now
        /\ ~obs.rotated
        /\ last_game_switch = now
        /\ current_game_index = 0
        /\ current_game.id = live_games[1].id

\* C6 witness: the current game left, two games came, and the display duration
\* had passed since the last switch
C6_Witness ==
    /\ ChangedIdentity /\ obs.preIds # <<>> /\ obs.preCurId \notin IdSet(obs.cands)
    /\ Len(live_games) = 2 /\ live_games[1].id # live_games[2].id
    /\ now - obs.preSwitch >= game_display_duration
    /\ ~obs.raised

\* C7: a successful poll without candidates clears the live set and current;
\* it logs the end of the live games when, and only when, games were tracked,
\* so a later empty poll does not log it again.
C7_ClearLoggedOnce ==
    (obs.kind = "poll" /\ obs.cands = <<>>) =>
        /\ live_games = <<>>
        /\ current_game = NoGame
        /\ current_game_index = 0
        /\ (obs.ended <=> obs.preIds # <<>>)
        /\ (obs.endedBefore /\ obs.preIds = <<>> => ~obs.ended)

\* C7 witness: an empty poll after the poll that cleared the live set
C7_Witness ==
    /\ obs.kind = "poll" /\ obs.cands = <<>> /\ obs.preIds = <<>>
    /\ obs.endedBefore /\ ~obs.ended

\* C10: rotation never advances the pointer on a tick in test mode or with at
\* most one game in the live set, whatever time has passed.
C10_RotationGated ==
    (test_mode \/ Len(live_games) <= 1) =>
        /\ ~obs.rotated
        /\ current_game_index = obs.recIdx
        /\ last_game_switch = obs.recSwitch

\* C10 witness: a test-mode tick with two games, long after the last switch
C10_Witness ==
    /\ test_mode /\ obs.kind = "test" /\ Len(live_games) = 2
    /\ now - last_game_switch >= game_display_duration

\* C8: a game of the live set whose favorite scoring team shows the labels
\* "", TOUCHDOWN, TOUCHDOWN, "" on four successive reconciled polls gets exactly
\* one alert, on the first TOUCHDOWN poll, and has no tracker entry afterwards.
C8_AlertOnce ==
    mon.phase = 4 =>
        /\ mon.n = 1
        /\ mon.first
        /\ Watched \notin DOMAIN last_scoring_events

\* C9: between two polls that show a game's label empty no (game id, label) is
\* alerted twice, and an alerted label seen again right after an empty one is
\* alerted anew.
C9_OncePerLabel == ~mon.dup /\ ~mon.missed

\* C9, first half alone: no (game id, label) is alerted twice before a clearing
C9_NoRepeat == ~mon.dup

\* C9, second half alone: the alerted label is alerted again after an empty one
C9_Retrigger == ~mon.missed

\* the rotation condition of a tick, on the state reconciliation left
RotationDue ==
    ~test_mode /\ Len(live_games) > 1
               /\ now - obs.recSwitch >= game_display_duration

\* the pointer moved one step round the live set and the switch clock restarted
Advanced ==
    /\ obs.rotated
    /\ current_game_index = (obs.recIdx + 1) % Len(live_games)
    /\ current_game = live_games[current_game_index + 1]
    /\ last_game_switch = now

\* C11: on every tick with test mode off, more than one live game and the
\* display duration elapsed since the last switch, current advances to
\* (index + 1) mod N, current_game is the game there and last_game_switch is
\* the tick time; on every other tick rotation does not advance current.
C11_RotationEachTick ==
    obs.kind # "init" =>
        IF RotationDue THEN Advanced
        ELSE ~obs.rotated /\ current_game_index = obs.recIdx

\* C11 restricted to the ticks on which the poll gate opened and no alert raised
C11_RotationWhenPolled ==
    (obs.kind \in {"test", "fail", "poll"} /\ ~obs.raised) =>
        IF RotationDue THEN Advanced
        ELSE ~obs.rotated /\ current_game_index = obs.recIdx

FailKeepsGames ==
    obs.kind = "fail" => (Ids(live_games) = obs.preIds /\ ~obs.refreshed)

\* C13, as stated: on a tick whose fetch fails the live set has the same games
\* in the same order and the same current pointer (index and game) as before
\* the tick.
C13_FetchFailUnchanged ==
    /\ FailKeepsGames
    /\ obs.kind = "fail" =>
          (current_game_index = obs.preIdx /\ current_game.id = obs.preCurId)

\* C13, amended: on a tick whose fetch fails the live set has the same games in
\* the same order and the failure handling leaves the current pointer where it
\* was; the pointer after the tick is the old one, or one step further round the
\* live set when the rotation step of that tick is due.
C13_FetchFailKeeps ==
    /\ FailKeepsGames
    /\ obs.kind = "fail" =>
          /\ obs.recIdx = obs.preIdx /\ obs.recCurId = obs.preCurId
          /\ IF RotationDue THEN Advanced
             ELSE current_game_index = obs.preIdx /\ current_game.id = obs.preCurId

\* C13 witness: the fetch failed with two games live, and the tick rotated
C13_Witness ==
    /\ obs.kind = "fail" /\ Len(live_games) = 2 /\ Ids(live_games) = obs.preIds
    /\ live_games[1].id # live_games[2].id
    /\ obs.rotated /\ current_game_index # obs.preIdx

\* the event extracts (abbreviations present, no failure) and passes the
\* live/halftime and favorite-team filters
GoodEvent(e) ==
    /\ e.common = "ok" /\ e.struct = "ok"
    /\ e.home_abbr # "" /\ e.away_abbr # ""
    /\ e.state \in {"in", "halftime"}
    /\ e.home_abbr = "KC" \/ e.away_abbr = "KC"

\* the extraction of the event failed
FailedEvent(e) ==
    e.common # "ok" \/ e.struct # "ok" \/ e.home_abbr = "" \/ e.away_abbr = ""

\* C14: a failed extraction of one event of a fetch omits only that event:
\* the candidates are exactly the events that extract and pass the filters, in
\* feed order, and the tick runs to its end (gate closed again, live set
\* reconciled with those candidates).
C14_SkipsOnlyFailed ==
    (obs.kind = "poll" /\ obs.feed # <<>>) =>
        LET good == {i \in 1..Len(obs.feed) : GoodEvent(obs.feed[i])} IN
        /\ Len(obs.cands) = Cardinality(good)
        /\ \A i \in good : \E k \in 1..Len(obs.cands) :
              /\ obs.cands[k].id = obs.feed[i].id
              /\ k = Cardinality({j \in good : j <= i})
        /\ last_update = now
        /\ IdSet(live_games) = {obs.feed[i].id : i \in good}

\* C14 witness: the first event of the feed failed to extract and the second
\* one is a candidate and in the live set
C14_Witness ==
    /\ obs.kind = "poll" /\ Len(obs.feed) = 2
    /\ FailedEvent(obs.feed[1]) /\ GoodEvent(obs.feed[2])
    /\ Len(obs.cands) = 1 /\ obs.cands[1].id = obs.feed[2].id
    /\ IdSet(live_games) = {obs.feed[2].id}

Clock0000 == <<"0", "0", ":", "0", "0">>

\* the tick ran the test-mode branch of update()
SimulatedStep == test_mode /\ obs'.kind = "test"

\* C15: in test mode a simulated step on a live current game with clock
\* "00:00" and period 4 yields is_live = false, is_final = true, period_text
\* "Final" and clock "00:00", and every later simulated step leaves the period,
\* clock, period_text and status flags of the game as they are.
C15_FinalIsTerminal ==
    [][SimulatedStep =>
         /\ (current_game.is_live /\ current_game.clock = Clock0000
                                  /\ current_game.period = 4)
            => /\ ~current_game'.is_live /\ current_game'.is_final
               /\ current_game'.period_text = "Final"
               /\ current_game'.clock = Clock0000
               /\ current_game'.period = 4
               /\ live_games'[current_game_index' + 1] = current_game'
         /\ (current_game.is_final /\ ~current_game.is_live)
            => /\ current_game'.period = current_game.period
               /\ current_game'.clock = current_game.clock
               /\ current_game'.period_text = current_game.period_text
               /\ current_game'.is_live = current_game.is_live
               /\ current_game'.is_final = current_game.is_final]_vars

\* C15 witness: a simulated step found the game final and left it so
C15_Witness ==
    /\ test_mode /\ obs.kind = "test" /\ ~obs.refreshed /\ ticks >= 2
    /\ current_game.is_final /\ ~current_game.is_live
    /\ current_game.period_text = "Final" /\ current_game.clock = Clock0000

\* the text is not "MM:SS": a character that is no digit, not exactly one
\* colon, or no digit on one side of it
NotMMSS(c) ==
    \/ \E i \in 1..Len(c) : c[i] # ":" /\ ~IsDigit(c[i])
    \/ Cardinality({i \in 1..Len(c) : c[i] = ":"}) # 1
    \/ c = <<>> \/ c[1] = ":" \/ c[Len(c)] = ":"

\* C16: in test mode a simulated step on a live current game whose clock text
\* is not "MM:SS" leaves every field of the game unchanged, update() runs to
\* its end, and the game stays live, so the next poll attempts the step again.
C16_BadClockUnchanged ==
    [][(SimulatedStep /\ current_game.is_live /\ NotMMSS(current_game.clock)) =>
         /\ current_game' = current_game
         /\ live_games' = live_games
         /\ current_game'.is_live
         /\ last_update' = now']_vars

\* C16 witness: the second simulated step in a row on a clock that does not parse
C16_Witness ==
    /\ test_mode /\ obs.kind = "test" /\ ticks >= 2 /\ last_update = now
    /\ current_game.is_live /\ NotMMSS(current_game.clock)

\* C17: after every tick every game id with an entry in last_scoring_events is
\* the id of a game of the live set, and the stored label is that game's
\* current, non-empty scoring_event.
C17_TrackerMatchesLive ==
    \A id \in DOMAIN last_scoring_events :
        \E i \in 1..Len(live_games) :
            /\ live_games[i].id = id
            /\ live_games[i].scoring_event # ""
            /\ live_games[i].scoring_event = last_scoring_events[id]

\* C17 for the games that are in the live set, on polls whose check ran to its
\* end: an entry of such a game holds its current non-empty label
C17_TrackedLabelCurrent ==
    (obs.kind = "poll" /\ obs.cands # <<>> /\ ~obs.raised) =>
        \A i \in 1..Len(live_games) :
            live_games[i].id \in DOMAIN last_scoring_events =>
                /\ live_games[i].scoring_event # ""
                /\ last_scoring_events[live_games[i].id] = live_games[i].scoring_event

\* the tracker has seen every game of the live set: no entry for an empty
\* label, the label itself otherwise
CheckedAll ==
    \A i \in 1..Len(live_games) :
        IF live_games[i].scoring_event = ""
        THEN live_games[i].id \notin DOMAIN last_scoring_events
        ELSE /\ live_games[i].id \in DOMAIN last_scoring_events
             /\ last_scoring_events[live_games[i].id] = live_games[i].scoring_event

\* C18: on a reconciled poll that emits an alert no exception leaves update(),
\* the tracker still checks every remaining game of the live set and the
\* rotation step of the tick still runs.
C18_AlertNeverAborts ==
    (obs.kind = "poll" /\ obs.alerts # <<>>) =>
        /\ ~obs.raised
        /\ CheckedAll
        /\ IF RotationDue THEN Advanced ELSE ~obs.rotated

\* the poll shows game g with a non-empty label that the tracker, as it was
\* before the tick, does not hold for it
NewLabel(g) ==
    /\ g.scoring_event # ""
    /\ g.id \notin DOMAIN last_scoring_events
       \/ last_scoring_events[g.id] # g.scoring_event

\* the scoring team resolves (possession is the home or the away id) to an
\* abbreviation of the favorite list
FavoriteScored(g) ==
    \/ g.possession = g.home_id /\ g.home_abbr \in favorite_teams
    \/ g.possession # g.home_id /\ g.possession = g.away_id
                                /\ g.away_abbr \in favorite_teams

\* the alerts of the tick for game id
AlertsOf(alerts, id) == {k \in 1..Len(alerts) : alerts[k].id = id}

\* C19: on a reconciled poll every game of the live set whose non-empty label
\* is new or differs from the tracked one gets exactly one alert {team, label}
\* when its scoring team resolves to a favorite and none otherwise, and its
\* label is recorded in the tracker either way.
C19_AlertIffFavorite ==
    [][(obs'.kind = "poll" /\ obs'.cands # <<>>) =>
         \A i \in 1..Len(live_games') :
            LET g == live_games'[i] IN
            NewLabel(g) =>
               /\ g.id \in DOMAIN last_scoring_events'
               /\ last_scoring_events'[g.id] = g.scoring_event
               /\ IF FavoriteScored(g)
                  THEN /\ Cardinality(AlertsOf(obs'.alerts, g.id)) = 1
                       /\ \A k \in AlertsOf(obs'.alerts, g.id) :
                             /\ obs'.alerts[k].label = g.scoring_event
                             /\ obs'.alerts[k].team = ScoringTeam(g)
                  ELSE AlertsOf(obs'.alerts, g.id) = {}]_vars

\* C20: when a game's label appears or changes on a poll where the scoring team
\* does not resolve, that poll emits no alert for it and records the label, and
\* no later poll alerts that label while the game keeps showing it, even when
\* possession has become a favorite's.
C20_NoRetryUnresolved == ~mon.unrecorded /\ ~mon.late

\* C20 on the behaviours of a tracker whose check always runs to its end: the
\* label that appeared unresolved is in the tracker while it is shown
C20_QuietIsTracked ==
    (mon.quiet # "" /\ ~obs.raised) =>
        (Watched \in DOMAIN last_scoring_events
         /\ last_scoring_events[Watched] = mon.quiet)

\* ascending by start_time_utc, the games without one after the others
StartOrdered(live) ==
    \A i, j \in 1..Len(live) :
        i < j =>
            /\ live[i].start_time_utc = Absent => live[j].start_time_utc = Absent
            /\ (live[i].start_time_utc # Absent /\ live[j].start_time_utc # Absent)
               => live[i].start_time_utc <= live[j].start_time_utc

\* C21, as stated: after every tick the live set is ordered by start_time_utc
\* ascending, also after a merge whose fresh records carry other start times
\* and with games that have none.
C21_AlwaysOrdered == StartOrdered(live_games)

\* C21, amended: a poll that changes the identity set leaves the live set
\* ordered by start_time_utc ascending, the games without one last; every
\* other tick (merge, failed fetch, closed gate, test mode) keeps the
\* positions of the ids, whatever start times the fresh records carry.
C21_OrderedAtReplace ==
    /\ ChangedIdentity => StartOrdered(live_games)
    /\ (obs.kind \in {"idle", "test", "fail"} \/ SameIdentity)
       => Ids(live_games) = obs.preIds

\* C21 witness: a merge brought start times that run against the kept order,
\* one of them absent
C21_Witness ==
    /\ SameIdentity /\ Len(live_games) = 2 /\ obs.refreshed
    /\ live_games[1].start_time_utc = Absent /\ live_games[2].start_time_utc = 1

\* the ids of the events of the feed that are in play or at halftime, extract
\* and pass the favorite filter
ObservedLive(feed) == {feed[i].id : i \in {k \in 1..Len(feed) : GoodEvent(feed[k])}}

\* C22: after every poll whose fetch succeeds the ids of the live set are the
\* ids of that poll's filtered candidates: a game observed in play or at
\* halftime (and passing the favorite filter) is in, and a game whose id the
\* candidates lack is out.
C22_LiveIdsAreCandidates ==
    obs.kind = "poll" =>
        /\ IdSet(live_games) = IdSet(obs.cands)
        /\ obs.feed # <<>> => IdSet(live_games) = ObservedLive(obs.feed)
        /\ \A id \in Range(obs.preIds) \ IdSet(obs.cands) : id \notin IdSet(live_games)
        /\ \A id \in IdSet(obs.cands) \ Range(obs.preIds) : id \in IdSet(live_games)

\* C22 witness: one poll removed a game the feed no longer shows in play and
\* let in a game first seen at halftime
C22_Witness ==
    /\ obs.kind = "poll" /\ obs.feed # <<>>
    /\ \E id \in Range(obs.preIds) : id \notin IdSet(live_games)
    /\ \E i \in 1..Len(obs.feed) :
          /\ obs.feed[i].state = "halftime" /\ GoodEvent(obs.feed[i])
          /\ obs.feed[i].id \notin Range(obs.preIds)
          /\ obs.feed[i].id \in IdSet(live_games)

\* C23: after a successful fetch the one-line summary is logged exactly when
\* now - last_log_time >= log_interval, or the candidate count differs from the
\* size of the live set, or an id of the prior live set differs from the
\* candidate id at the same index, or the live set was empty and there are
\* candidates; last_log_time becomes now when it is logged and stays otherwise.
C23_SummaryCondition ==
    [][obs'.kind = "poll" =>
         LET due == \/ now' - last_log_time >= 300
                    \/ Len(obs'.cands) # Len(live_games)
                    \/ \E i \in 1..Len(live_games) :
                          i <= Len(obs'.cands) /\ live_games[i].id # obs'.cands[i].id
                    \/ live_games = <<>> /\ obs'.cands # <<>>
         IN /\ obs'.summary <=> due
            /\ last_log_time' = IF due THEN now' ELSE last_log_time]_vars

\* C23 witness: a poll with candidates logged no summary and left
\* last_log_time behind
C23_Witness ==
    /\ obs.kind = "poll" /\ obs.cands # <<>> /\ ~obs.summary
    /\ last_log_time < now /\ last_update = now

\* a poll logged the summary for the positions alone: the same ids in another
\* feed order, less than log_interval after the last summary
C23_LoggedForPositions ==
    /\ obs.kind = "poll" /\ obs.summary /\ SameIdentity
    /\ Len(obs.cands) = Len(obs.preIds) /\ Ids(obs.cands) # obs.preIds
    /\ now < BootTime + log_interval

\* the poll fetched one event, which extraction turned into a Game
ExtractedOne ==
    /\ obs.kind = "poll" /\ Len(obs.feed) = 1
    /\ ExtractGameDetails(obs.feed[1]) # NoDetails

\* the Game of that event
Extracted == ExtractGameDetails(obs.feed[1])

\* the period_text the rules give for a status state, status name and period
RulePeriodText(state, name, period, game_time) ==
    IF state = "halftime" \/ name = "STATUS_HALFTIME" THEN "HALF"
    ELSE IF state = "in"
    THEN (IF period = 0 THEN "Start" ELSE IF period > 4 THEN "OT"
          ELSE <<"Q1", "Q2", "Q3", "Q4">>[period])
    ELSE IF state = "post" THEN (IF period > 4 THEN "Final/OT" ELSE "Final")
    ELSE game_time

\* C24: for every status state, status name and period the extracted
\* period_text is "HALF" when the state is halftime or the name is
\* STATUS_HALFTIME, else for state in "Start", "Q1".."Q4" or "OT" by the
\* period, for state post "Final/OT" past period 4 and "Final" otherwise, for
\* state pre the scheduled game-time label.
C24_PeriodText ==
    ExtractedOne =>
        /\ Extracted.period_text =
              RulePeriodText(obs.feed[1].state, obs.feed[1].name,
                             obs.feed[1].period, obs.feed[1].game_time)
        /\ live_games # <<>> => live_games[1].period_text = Extracted.period_text

\* C24 for the events that are not in play under the halftime name
C24_PeriodTextUnlessInPlay ==
    (ExtractedOne /\ ~(obs.feed[1].state = "in" /\ obs.feed[1].name = "STATUS_HALFTIME"))
    => Extracted.period_text =
          RulePeriodText(obs.feed[1].state, obs.feed[1].name,
                         obs.feed[1].period, obs.feed[1].game_time)

PointAfter == <<"p", "o", "i", "n", "t", " ", "a", "f", "t", "e", "r">>

\* the label of the first keyword group found in a lower-case text: TOUCHDOWN
\* {touchdown, td}, FIELD GOAL {field goal, fg}, PAT {extra point, pat, point
\* after}; "" when none is found
FirstGroup(text) ==
    IF AnyIn(KwTouchdown, text) THEN "TOUCHDOWN"
    ELSE IF AnyIn(KwFieldGoal, text) THEN "FIELD GOAL"
    ELSE IF AnyIn(KwPatDetail, text) THEN "PAT"
    ELSE ""

\* the long detail text first and, when no group matches there, the short one
RuleScoringEvent(detail, shortDetail) ==
    IF FirstGroup(Lower(detail)) # "" THEN FirstGroup(Lower(detail))
    ELSE FirstGroup(Lower(shortDetail))

\* C25: when the state is in, the extracted scoring_event is the label of the
\* first matching keyword group, searched case-insensitively in the long detail
\* text and, only when no group matches there, in the short detail text with
\* the same three groups; it is "" when nothing matches and whenever the state
\* is not in.
C25_ScoringEvent ==
    ExtractedOne =>
        Extracted.scoring_event =
            IF obs.feed[1].state = "in"
            THEN RuleScoringEvent(obs.feed[1].detail, obs.feed[1].shortDetail)
            ELSE ""

\* C25 for the events that have a situation record and whose short text does
\* not say "point after"
C25_ScoringEventWithSituation ==
    (ExtractedOne /\ obs.feed[1].situation
                  /\ ~Contains(Lower(obs.feed[1].shortDetail), PointAfter))
    => Extracted.scoring_event =
           IF obs.feed[1].state = "in"
           THEN RuleScoringEvent(obs.feed[1].detail, obs.feed[1].shortDetail)
           ELSE ""

\* a poll stored the label of a capitalised keyword found in the short text
\* alone, the long text matching no group
C25_ShortTextUsed ==
    /\ ExtractedOne /\ obs.feed[1].state = "in"
    /\ FirstGroup(Lower(obs.feed[1].detail)) = "" /\ obs.feed[1].detail # <<>>
    /\ live_games # <<>> /\ live_games[1].scoring_event = "FIELD GOAL"

\* the timeouts the rule gives: the feed's value when the event has a
\* situation record that carries one, 3 otherwise
RuleTimeouts(e, given) == IF e.situation /\ given # Absent THEN given ELSE 3

\* C26: in every extracted Game home_timeouts and away_timeouts are 3 when
\* the feed does not supply them (also without a situation record and when the
\* state is not in) and the feed's value otherwise.
C26_TimeoutsDefault ==
    ExtractedOne =>
        /\ Extracted.home_timeouts = RuleTimeouts(obs.feed[1], obs.feed[1].homeTimeouts)
        /\ Extracted.away_timeouts = RuleTimeouts(obs.feed[1], obs.feed[1].awayTimeouts)

\* C26 for the events in play that have a situation record
C26_TimeoutsInPlay ==
    (ExtractedOne /\ obs.feed[1].situation /\ obs.feed[1].state = "in") =>
        /\ Extracted.home_timeouts = RuleTimeouts(obs.feed[1], obs.feed[1].homeTimeouts)
        /\ Extracted.away_timeouts = RuleTimeouts(obs.feed[1], obs.feed[1].awayTimeouts)

\* a poll stored a game in play with the home timeouts of the feed and the
\* default for the missing away timeouts
C26_InPlayReached ==
    /\ ExtractedOne /\ obs.feed[1].situation /\ obs.feed[1].state = "in"
    /\ obs.feed[1].homeTimeouts = 2 /\ obs.feed[1].awayTimeouts = Absent
    /\ live_games # <<>> /\ live_games[1].home_timeouts = 2
    /\ live_games[1].away_timeouts = 3

\* the two numbers of a clock text "MM:SS"
Minutes(c) == IntOf(SplitColon(c)[1])
Seconds(c) == IntOf(SplitColon(c)[2])

QuarterLabel(p) == <<"Q1", "Q2", "Q3", "Q4">>[p]
Clock1459 == <<"1", "4", ":", "5", "9">>

\* C27: a simulated step on a live current game with a clock "MM:SS" takes one
\* second off the clock (seconds - 1; on seconds underflow seconds = 59 and
\* minutes - 1); on minute underflow with period < 4 the period grows by one,
\* period_text is the "Q1".."Q4" label of the new period and the clock is
\* "15:00"; in all these cases the game stays live.
C27_ClockStep ==
    [][(SimulatedStep /\ current_game.is_live /\ ~NotMMSS(current_game.clock)) =>
         /\ ~NotMMSS(current_game'.clock)
         /\ Seconds(current_game.clock) > 0 =>
              /\ Seconds(current_game'.clock) = Seconds(current_game.clock) - 1
              /\ Minutes(current_game'.clock) = Minutes(current_game.clock)
              /\ current_game'.is_live
         /\ (Seconds(current_game.clock) = 0 /\ Minutes(current_game.clock) > 0) =>
              /\ Seconds(current_game'.clock) = 59
              /\ Minutes(current_game'.clock) = Minutes(current_game.clock) - 1
              /\ current_game'.is_live
         /\ (Seconds(current_game.clock) = 0 /\ Minutes(current_game.clock) = 0
                                              /\ current_game.period < 4) =>
              /\ current_game'.period = current_game.period + 1
              /\ current_game'.period \in 1..4
              /\ current_game'.period_text = QuarterLabel(current_game'.period)
              /\ current_game'.clock = Clock1500
              /\ current_game'.is_live
         /\ live_games'[current_game_index' + 1] = current_game']_vars

\* C27 witness: a quarter ran out, the next one began at "15:00" and the step
\* after that borrowed a minute
C27_Witness ==
    /\ test_mode /\ obs.kind = "test" /\ ticks >= 2
    /\ current_game.is_live /\ current_game.clock = Clock1459
    /\ current_game.period \in {1, 4}
    /\ current_game.period_text = QuarterLabel(current_game.period)

\* the fields of a game the simulation writes
SimFields ==
    {"clock", "period", "period_text", "is_live", "is_final",
     "down_distance_text", "status_text"}

SameButSimulated(g, h) ==
    DOMAIN g = DOMAIN h /\ \A f \in DOMAIN g \ SimFields : g[f] = h[f]

C29_ClosedGateFrame ==
    [][(ticks' = ticks + 1 /\ now' - last_update < Interval) =>
         /\ UNCHANGED <<live_games, current_game_index, current_game,
                        last_game_switch, last_update, last_log_time,
                        last_scoring_events>>
         /\ obs'.kind = "idle"
         /\ obs'.cands = <<>> /\ obs'.feed = <<>> /\ obs'.alerts = <<>>
         /\ ~obs'.rotated]_vars

\* C29 witness: the gate was closed on a tick with two live games and the
\* display duration elapsed
C29_Witness ==
    /\ obs.kind = "idle" /\ ~test_mode /\ Len(live_games) = 2
    /\ now - last_update < update_interval
    /\ now - last_game_switch >= game_display_duration
    /\ current_game = live_games[current_game_index + 1]

\* the seconds left on a clock text "MM:SS"
Remaining(c) == 60 * Minutes(c) + Seconds(c)

SimStartable ==
    /\ test_mode /\ current_game.is_live /\ ~NotMMSS(current_game.clock)
    /\ current_game.period \in 0..4

SimFinal == current_game.is_final /\ ~current_game.is_live

\* C30: in test mode, from a live current game with a clock "MM:SS" and a
\* period from 0 to 4, repeated polled ticks lead to the final state
\* (is_final, not is_live); on the way the period never decreases and, within
\* one period, each simulated step takes exactly one second off the clock.
C30_ReachesFinal ==
    /\ SimStartable ~> SimFinal
    /\ [][(SimulatedStep /\ SimStartable) =>
            /\ current_game'.period >= current_game.period
            /\ (current_game'.is_live /\ current_game'.period = current_game.period)
                 => Remaining(current_game'.clock) = Remaining(current_game.clock) - 1
            /\ current_game'.is_live => SimStartable']_vars

\* C30 witness: the game that began at the end of the third quarter is final
\* after the step into the fourth, its 900 steps and the last one
C30_Witness ==
    /\ test_mode /\ obs.kind = "test" /\ ticks = 902
    /\ SimFinal /\ current_game.period = 4
    /\ current_game.period_text = "Final" /\ current_game.clock = Clock0000

\* the number of games in the identity set of the live set
LiveCount == Cardinality(IdSet(live_games))

\* every LiveCount rotations in a row, since the identity set last changed,
\* showed each of its games once and ended on the game shown before them
RoundsComplete ==
    \A k \in 0..(Len(obs.shown) - LiveCount) :
        /\ {obs.shown[k + i] : i \in 1..LiveCount} = IdSet(live_games)
        /\ obs.shown[k + LiveCount] =
               IF k = 0 THEN obs.shownFrom ELSE obs.shown[k]

\* C31: outside test mode, while successive polls keep the identity set of
\* N > 1 games unchanged, rotation is round-robin: N rotations in a row make
\* every game of the live set current exactly once and bring current back to
\* the game it started from.
C31_RoundRobin ==
    (~test_mode /\ LiveCount > 1) => RoundsComplete

\* C31 for a live set that holds each of its ids once
C31_RoundRobinUniqueIds ==
    (~test_mode /\ LiveCount > 1 /\ Len(live_games) = LiveCount) => RoundsComplete

\* three rotations took current through a live set of three games and back
C31_FullRound ==
    /\ ~test_mode /\ LiveCount = 3 /\ Len(live_games) = 3
    /\ Len(obs.shown) = 3 /\ obs.shown[3] = obs.shownFrom
    /\ current_game.id = obs.shownFrom

====
